---- MODULE Spec2Model ----
(***************************************************************************)
(* Model of pkg/analysis/volume.go of token-volume-tracker: the parsing    *)
(* of daily volume rows, the densification to a 364-day horizon            *)
(* (fillMissingDays) and the rolling 30/90/180-day statistics of           *)
(* CalculateRollingAverages.                                               *)
(*                                                                         *)
(* Representation.                                                         *)
(*  - A time.Time is [abs, loc]: abs is the instant in hours since         *)
(*    2024-01-01T00:00Z, loc the Location (a base offset and a list of     *)
(*    transitions, offsets in hours).                                      *)
(*  - A calendar-day string "YYYY-MM-DD" is its day number since           *)
(*    2024-01-01 (day 0); the two are in bijection.                        *)
(*  - Volumes are fixed-point numbers in hundredths (100 is 1.00, 101 is   *)
(*    1.01); the float64 results of the statistics are exact rationals     *)
(*    [n, d] in the same unit, so floating-point rounding is not modelled. *)
(***************************************************************************)
EXTENDS Integers, Sequences, FiniteSets, TLC

\* ------------------------------------------------------------------ bounds

\* Largest number of freely chosen data rows of an input file.
MaxRows == 2

\* Largest number of freely chosen observations handed to fillMissingDays.
MaxObs == 2

\* The largest number of hours the clock advances during a call.
MaxTicks == 1

\* The largest number of entries of a directory.
MaxEntries == 2

\* ------------------------------------------------------- program constants

HorizonDays == 364
HorizonBack == 363
CutoffBack == 364
HoursPerDay == 24
Window30 == 30
Window90 == 90
Window180 == 180
LowVolumeThreshold == 100
Percent == 100
FullYearDays == 365
FetchDays == 364

\* ---------------------------------------------------------------- rationals

RECURSIVE Gcd(_, _)
Gcd(a, b) == IF b = 0 THEN a ELSE Gcd(b, a % b)

Abs(x) == IF x < 0 THEN -x ELSE x

\* A rational with a positive denominator, in lowest terms.
Rat(n, d) ==
  LET s == IF d < 0 THEN -1 ELSE 1
      g == Gcd(Abs(n), Abs(d))
  IN  [n |-> (s * n) \div g, d |-> (s * d) \div g]

Zero == [n |-> 0, d |-> 1]
FromInt(k) == [n |-> k, d |-> 1]
RatSub(a, b) == Rat(a.n * b.d - b.n * a.d, a.d * b.d)
RatDiv(a, b) == Rat(a.n * b.d, a.d * b.n)
RatMul(a, b) == Rat(a.n * b.n, a.d * b.d)
RatGt(a, b) == a.n * b.d > b.n * a.d
RatLe(a, b) == a.n * b.d <= b.n * a.d
RatEq(a, b) == a.n * b.d = b.n * a.d
RatMax(a, b) == IF RatGt(a, b) THEN a ELSE b

\* -------------------------------------------------------------------- time

UTCLoc == [base |-> 0, trans |-> <<>>]
FixedZone(off) == [base |-> off, trans |-> <<>>]

\* Sentinels of Location.lookup for "no earlier / no later transition".
alpha == -(10 ^ 8)
omega == 10 ^ 8

\* Location.lookup: the zone in effect at instant x, as its offset and the
\* half-open interval [start, end) of instants in which it is in effect.
RECURSIVE lookupFrom(_, _, _)
lookupFrom(loc, x, k) ==
  IF k = 0
    THEN [offset |-> loc.base,
          start |-> alpha,
          end |-> IF Len(loc.trans) = 0 THEN omega ELSE loc.trans[1].at]
    ELSE IF loc.trans[k].at <= x
      THEN [offset |-> loc.trans[k].off,
            start |-> loc.trans[k].at,
            end |-> IF k = Len(loc.trans) THEN omega ELSE loc.trans[k + 1].at]
      ELSE lookupFrom(loc, x, k - 1)

lookup(loc, x) == lookupFrom(loc, x, Len(loc.trans))

\* time.Date for a wall-clock reading (hours since the epoch, read as if UTC)
\* in a Location.
Date(wall, loc) ==
  LET z == lookup(loc, wall)
      utc == wall - z.offset
      off == IF z.offset # 0 /\ (utc < z.start \/ utc >= z.end)
               THEN lookup(loc, utc).offset
               ELSE z.offset
  IN  [abs |-> wall - off, loc |-> loc]

Wall(t) == t.abs + lookup(t.loc, t.abs).offset

\* Time.AddDate(0, 0, days): same wall-clock time, days later, in t's Location.
AddDate(t, days) == Date(Wall(t) + days * HoursPerDay, t.loc)

\* Time.Add(24 * time.Hour * k)
AddHours(t, h) == [abs |-> t.abs + h, loc |-> t.loc]

\* Time.UTC()
UTC(t) == [abs |-> t.abs, loc |-> UTCLoc]

\* Time.Truncate(24 * time.Hour): rounds the instant down to a multiple of 24h
\* since the zero time, i.e. to UTC midnight; the Location is kept.
Truncate(t) == [abs |-> t.abs - (t.abs % HoursPerDay), loc |-> t.loc]

\* Time.Format("2006-01-02"): the calendar day of t in t's own Location.
Format(t) == Wall(t) \div HoursPerDay

Before(a, b) == a.abs < b.abs
After(a, b) == a.abs > b.abs

\* -------------------------------------------------------------- VolumeData

\* The zero value of VolumeData's derived fields, for a day, a name, a volume.
VolumeData(name, date, volume) ==
  [Name |-> name, Date |-> date, Volume |-> volume,
   DayAvg30 |-> Zero, DayAvg90 |-> Zero, DayAvg180 |-> Zero,
   LowVolumeDays30 |-> 0, LowVolumeDays90 |-> 0, LowVolumeDays180 |-> 0,
   High30 |-> Zero, High90 |-> Zero, High180 |-> Zero,
   ChangeFromHighAvg30 |-> Zero, ChangeFromHighAvg90 |-> Zero,
   ChangeFromHighAvg180 |-> Zero]

\* ------------------------------------------------------------- sort.Slice

\* The comparison both sorts hand to sort.Slice.
less(a, b) == Before(a.Date, b.Date)

\* insertionSort's inner loop: r moves left past every element it is less than.
RECURSIVE insertLeft(_, _)
insertLeft(s, r) ==
  IF s = <<>> \/ ~less(r, s[Len(s)])
    THEN Append(s, r)
    ELSE Append(insertLeft(SubSeq(s, 1, Len(s) - 1), r), s[Len(s)])

RECURSIVE insertionSort(_, _)
insertionSort(s, k) ==
  IF k = 0 THEN <<>> ELSE insertLeft(insertionSort(s, k - 1), s[k])

\* Every ordering of the records at the indices S that less() accepts as
\* sorted: elements that compare equal come in any order.
RECURSIVE tieOrders(_, _)
tieOrders(s, S) ==
  IF S = {} THEN {<<>>}
  ELSE LET first == {i \in S : \A j \in S : ~less(s[j], s[i])}
       IN  UNION {{<<s[i]>> \o rest : rest \in tieOrders(s, S \ {i})} : i \in first}

\* sort.Slice(records, less): the possible results. Slices of at most 12
\* elements (the sort package's maxInsertion) are insertion-sorted, which keeps
\* the order of equal elements; longer ones go through pdqsort, which
\* sort.Slice documents as not stable.
SortSlice(s) ==
  IF Len(s) <= 12
    THEN {insertionSort(s, Len(s))}
    ELSE tieOrders(s, DOMAIN s)

\* --------------------------------------------------------- fillMissingDays

\* existingDates with the key taken from the instant (the UTC day) instead of
\* the calendar day of the record's own Location.
existingDatesByInstant(records) ==
  [d \in {records[k].Date.abs \div HoursPerDay : k \in DOMAIN records} |->
     LET last == CHOOSE k \in DOMAIN records :
                   /\ records[k].Date.abs \div HoursPerDay = d
                   /\ \A m \in DOMAIN records :
                        records[m].Date.abs \div HoursPerDay = d => m <= k
     IN  records[last]]

\* The map existingDates after the loop over the sorted records: for each
\* key the record written last.
existingDates(records) ==
  [d \in {Format(records[k].Date) : k \in DOMAIN records} |->
     LET last == CHOOSE k \in DOMAIN records :
                   /\ Format(records[k].Date) = d
                   /\ \A m \in DOMAIN records :
                        Format(records[m].Date) = d => m <= k
     IN  records[last]]

\* fillLoop stepping two days at a time.
fillLoopTwoDays(existing, tokenName, startDate, endDate) ==
  LET steps == IF After(startDate, endDate) THEN 0
               ELSE (endDate.abs - startDate.abs) \div HoursPerDay + 1
  IN  [k \in 1..steps |->
         LET currentDate == AddHours(startDate, (k - 1) * 2 * HoursPerDay)
             dateStr == Format(currentDate)
         IN  IF dateStr \in DOMAIN existing
               THEN existing[dateStr]
               ELSE VolumeData(tokenName, currentDate, 0)]

\* fillLoop giving the zero-volume records no name.
fillLoopNoName(existing, tokenName, startDate, endDate) ==
  LET steps == IF After(startDate, endDate) THEN 0
               ELSE (endDate.abs - startDate.abs) \div HoursPerDay + 1
  IN  [k \in 1..steps |->
         LET currentDate == AddHours(startDate, (k - 1) * HoursPerDay)
             dateStr == Format(currentDate)
         IN  IF dateStr \in DOMAIN existing
               THEN existing[dateStr]
               ELSE VolumeData("", currentDate, 0)]

\* fillLoop walking up to the day after endDate ("up to today").
fillLoopPastEnd(existing, tokenName, startDate, endDate) ==
  LET steps == IF After(startDate, endDate) THEN 0
               ELSE (endDate.abs - startDate.abs) \div HoursPerDay + 2
  IN  [k \in 1..steps |->
         LET currentDate == AddHours(startDate, (k - 1) * HoursPerDay)
             dateStr == Format(currentDate)
         IN  IF dateStr \in DOMAIN existing
               THEN existing[dateStr]
               ELSE VolumeData(tokenName, currentDate, 0)]

\* fillLoop giving a missing day the volume of the day before it when that
\* day has a record, instead of 0.
fillLoopCarry(existing, tokenName, startDate, endDate) ==
  LET steps == IF After(startDate, endDate) THEN 0
               ELSE (endDate.abs - startDate.abs) \div HoursPerDay + 1
  IN  [k \in 1..steps |->
         LET currentDate == AddHours(startDate, (k - 1) * HoursPerDay)
             dateStr == Format(currentDate)
         IN  IF dateStr \in DOMAIN existing
               THEN existing[dateStr]
               ELSE IF dateStr - 1 \in DOMAIN existing
                 THEN VolumeData(tokenName, currentDate, existing[dateStr - 1].Volume)
                 ELSE VolumeData(tokenName, currentDate, 0)]

\* The walk "for !currentDate.After(endDate)" from startDate in steps of 24
\* hours: step k (from 0) looks currentDate = startDate + k * 24h up in the
\* map and appends the record found there, or a zero-volume record.
fillLoop(existing, tokenName, startDate, endDate) ==
  LET steps == IF After(startDate, endDate) THEN 0
               ELSE (endDate.abs - startDate.abs) \div HoursPerDay + 1
  IN  [k \in 1..steps |->
         LET currentDate == AddHours(startDate, (k - 1) * HoursPerDay)
             dateStr == Format(currentDate)
         IN  IF dateStr \in DOMAIN existing
               THEN existing[dateStr]
               ELSE VolumeData(tokenName, currentDate, 0)]

\* The count check at the end of fillMissingDays: a longer result is cut from
\* the start, a shorter one is only reported.
adjustCount(completeRecords) ==
  IF Len(completeRecords) # HorizonDays /\ Len(completeRecords) > HorizonDays
    THEN SubSeq(completeRecords, Len(completeRecords) - HorizonDays + 1,
                Len(completeRecords))
    ELSE completeRecords

\* fillMissingDays after its sort, for one result of the sort.
fillSorted(sorted, tokenName, endDate) ==
  LET startDate == Truncate(UTC(AddDate(endDate, -HorizonBack)))
      endDay == Truncate(UTC(endDate))
  IN  adjustCount(fillLoop(existingDates(sorted), tokenName, startDate, endDay))

\* fillMissingDays: the set of possible results (one for each result of the sort).
fillMissingDays(records, tokenName, endDate) ==
  IF Len(records) = 0 THEN {records}
  ELSE {fillSorted(sorted, tokenName, endDate) : sorted \in SortSlice(records)}

\* ------------------------------------------------------ rolling statistics

\* sumBody leaving the days of volume 0 out of the sum and of the day count.
sumBodySkipZero(records, yesterday, i, j, acc) ==
  IF acc.hasFutureDate THEN acc
  ELSE IF i - j >= 0
    THEN IF After(records[i - j + 1].Date, yesterday)
           THEN [acc EXCEPT !.hasFutureDate = TRUE]
           ELSE IF records[i - j + 1].Volume = 0 THEN acc
           ELSE [acc EXCEPT !.sum = @ + records[i - j + 1].Volume,
                            !.daysInWindow = @ + 1]
    ELSE acc

\* The body of "for j := 0; j < w; j++" in the averaging loop, i being the
\* 0-based index of the code: records[i-j] is added to the sum unless it is
\* dated after yesterday, which ends the loop (break).
sumBody(records, yesterday, i, j, acc) ==
  IF acc.hasFutureDate THEN acc
  ELSE IF i - j >= 0
    THEN IF After(records[i - j + 1].Date, yesterday)
           THEN [acc EXCEPT !.hasFutureDate = TRUE]
           ELSE [acc EXCEPT !.sum = @ + records[i - j + 1].Volume,
                            !.daysInWindow = @ + 1]
    ELSE acc

\* The iterations j = lo..hi of the averaging loop, in order, up to the break;
\* the iterations with i - j < 0 change nothing.
RECURSIVE sumWindow(_, _, _, _, _, _)
sumWindow(records, yesterday, i, lo, hi, acc) ==
  IF lo > hi \/ i - lo < 0 THEN acc
  ELSE IF lo = hi THEN sumBody(records, yesterday, i, lo, acc)
  ELSE LET mid == (lo + hi) \div 2
           half == sumWindow(records, yesterday, i, lo, mid, acc)
       IN  IF half.hasFutureDate THEN half
           ELSE sumWindow(records, yesterday, i, mid + 1, hi, half)

\* lowBody counting the days of volume < 1.0.
lowBodyStrict(records, yesterday, i, j, acc) ==
  IF acc.hasFutureDate THEN acc
  ELSE IF i - j >= 0
    THEN IF After(records[i - j + 1].Date, yesterday)
           THEN [acc EXCEPT !.hasFutureDate = TRUE]
           ELSE [acc EXCEPT !.daysInWindow = @ + 1,
                            !.lowVolumeDays = @ +
                               IF records[i - j + 1].Volume < LowVolumeThreshold
                                 THEN 1 ELSE 0]
    ELSE acc

\* lowBody leaving the days of volume 0 out of the count.
lowBodySkipZero(records, yesterday, i, j, acc) ==
  IF acc.hasFutureDate THEN acc
  ELSE IF i - j >= 0
    THEN IF After(records[i - j + 1].Date, yesterday)
           THEN [acc EXCEPT !.hasFutureDate = TRUE]
           ELSE [acc EXCEPT !.daysInWindow = @ + 1,
                            !.lowVolumeDays = @ +
                               IF /\ records[i - j + 1].Volume # 0
                                  /\ records[i - j + 1].Volume <= LowVolumeThreshold
                                 THEN 1 ELSE 0]
    ELSE acc

\* The body of the second loop over the same window, counting the days of
\* volume <= 1.0.
lowBody(records, yesterday, i, j, acc) ==
  IF acc.hasFutureDate THEN acc
  ELSE IF i - j >= 0
    THEN IF After(records[i - j + 1].Date, yesterday)
           THEN [acc EXCEPT !.hasFutureDate = TRUE]
           ELSE [acc EXCEPT !.daysInWindow = @ + 1,
                            !.lowVolumeDays = @ +
                               IF records[i - j + 1].Volume <= LowVolumeThreshold
                                 THEN 1 ELSE 0]
    ELSE acc

\* The iterations j = lo..hi of the counting loop, in order, up to the break;
\* the iterations with i - j < 0 change nothing.
RECURSIVE lowWindow(_, _, _, _, _, _)
lowWindow(records, yesterday, i, lo, hi, acc) ==
  IF lo > hi \/ i - lo < 0 THEN acc
  ELSE IF lo = hi THEN lowBody(records, yesterday, i, lo, acc)
  ELSE LET mid == (lo + hi) \div 2
           half == lowWindow(records, yesterday, i, lo, mid, acc)
       IN  IF half.hasFutureDate THEN half
           ELSE lowWindow(records, yesterday, i, mid + 1, hi, half)

scanStart == [sum |-> 0, daysInWindow |-> 0, lowVolumeDays |-> 0,
              hasFutureDate |-> FALSE]

\* avgBlock helpers shared by its variants.
avgOf(a) == Rat(a.sum, a.daysInWindow)

\* changeOf measuring from the average up to the high.
changeOfUpward(avg, highest, prevChange) ==
  IF RatGt(highest, Zero)
    THEN RatMul(RatDiv(RatSub(highest, avg), highest), FromInt(Percent))
    ELSE prevChange

changeOf(avg, highest, prevChange) ==
  IF RatGt(highest, Zero)
    THEN RatMul(RatDiv(RatSub(avg, highest), highest), FromInt(Percent))
    ELSE prevChange

\* avgBlock averaging over the days there are when the window is short.
avgBlockPartial(records, yesterday, i, w, highestAvg, prevChange) ==
  LET a == sumWindow(records, yesterday, i, 0, w - 1, scanStart)
  IN  IF a.hasFutureDate \/ a.daysInWindow = 0
        THEN [avg |-> Zero, high |-> Zero, change |-> Zero, highest |-> highestAvg]
        ELSE LET avg == avgOf(a)
                 highest == IF RatGt(avg, highestAvg) THEN avg ELSE highestAvg
             IN  [avg |-> avg, high |-> highest,
                  change |-> changeOf(avg, highest, prevChange),
                  highest |-> highest]

\* avgBlock recording the day's average as the high, with no running maximum.
avgBlockNoMax(records, yesterday, i, w, highestAvg, prevChange) ==
  LET a == sumWindow(records, yesterday, i, 0, w - 1, scanStart)
  IN  IF a.hasFutureDate \/ a.daysInWindow < w
        THEN [avg |-> Zero, high |-> Zero, change |-> Zero, highest |-> highestAvg]
        ELSE LET avg == avgOf(a)
             IN  [avg |-> avg, high |-> avg,
                  change |-> changeOf(avg, avg, prevChange),
                  highest |-> avg]

\* avgBlock recording the running maximum before the day's average enters it.
avgBlockHighBefore(records, yesterday, i, w, highestAvg, prevChange) ==
  LET a == sumWindow(records, yesterday, i, 0, w - 1, scanStart)
  IN  IF a.hasFutureDate \/ a.daysInWindow < w
        THEN [avg |-> Zero, high |-> Zero, change |-> Zero, highest |-> highestAvg]
        ELSE LET avg == avgOf(a)
                 highest == IF RatGt(avg, highestAvg) THEN avg ELSE highestAvg
             IN  [avg |-> avg, high |-> highestAvg,
                  change |-> changeOf(avg, highestAvg, prevChange),
                  highest |-> highest]

\* avgBlock with the comparison of the running maximum turned around.
avgBlockFlipped(records, yesterday, i, w, highestAvg, prevChange) ==
  LET a == sumWindow(records, yesterday, i, 0, w - 1, scanStart)
  IN  IF a.hasFutureDate \/ a.daysInWindow < w
        THEN [avg |-> Zero, high |-> Zero, change |-> Zero, highest |-> highestAvg]
        ELSE LET avg == avgOf(a)
                 highest == IF RatGt(highestAvg, avg) THEN avg ELSE highestAvg
             IN  [avg |-> avg, high |-> highest,
                  change |-> changeOf(avg, highest, prevChange),
                  highest |-> highest]

\* The average, the running high and the change from the high of one window
\* at index i: [avg, high, change, highest], highest being the running
\* maximum after this day. prevChange is the field's value before the step.
avgBlock(records, yesterday, i, w, highestAvg, prevChange) ==
  LET a == sumWindow(records, yesterday, i, 0, w - 1, scanStart)
  IN  IF a.hasFutureDate \/ a.daysInWindow < w
        THEN [avg |-> Zero, high |-> Zero, change |-> Zero, highest |-> highestAvg]
        ELSE LET avg == avgOf(a)
                 highest == IF RatGt(avg, highestAvg) THEN avg ELSE highestAvg
             IN  [avg |-> avg, high |-> highest,
                  change |-> changeOf(avg, highest, prevChange),
                  highest |-> highest]

\* The low-volume-day count of one window at index i.
lowBlock(records, yesterday, i, w) ==
  LET l == lowWindow(records, yesterday, i, 0, w - 1, scanStart)
  IN  IF l.hasFutureDate \/ l.daysInWindow < w THEN 0 ELSE l.lowVolumeDays

\* One iteration of the statistics loop: the records and the three running
\* maxima after index i.
statsStep(st, yesterday, i) ==
  LET records == st.records
      r == records[i + 1]
  IN  IF After(r.Date, yesterday)
        THEN [st EXCEPT !.records[i + 1] =
                [r EXCEPT !.DayAvg30 = Zero, !.DayAvg90 = Zero, !.DayAvg180 = Zero,
                          !.LowVolumeDays30 = 0, !.LowVolumeDays90 = 0,
                          !.LowVolumeDays180 = 0,
                          !.High30 = Zero, !.High90 = Zero, !.High180 = Zero,
                          !.ChangeFromHighAvg30 = Zero, !.ChangeFromHighAvg90 = Zero,
                          !.ChangeFromHighAvg180 = Zero]]
        ELSE LET b30 == avgBlock(records, yesterday, i, Window30,
                                 st.highestAvg30, r.ChangeFromHighAvg30)
                 b90 == avgBlock(records, yesterday, i, Window90,
                                 st.highestAvg90, r.ChangeFromHighAvg90)
                 b180 == avgBlock(records, yesterday, i, Window180,
                                  st.highestAvg180, r.ChangeFromHighAvg180)
             IN  [records |-> [records EXCEPT ![i + 1] =
                    [r EXCEPT !.DayAvg30 = b30.avg, !.High30 = b30.high,
                              !.ChangeFromHighAvg30 = b30.change,
                              !.LowVolumeDays30 = lowBlock(records, yesterday, i, Window30),
                              !.DayAvg90 = b90.avg, !.High90 = b90.high,
                              !.ChangeFromHighAvg90 = b90.change,
                              !.LowVolumeDays90 = lowBlock(records, yesterday, i, Window90),
                              !.DayAvg180 = b180.avg, !.High180 = b180.high,
                              !.ChangeFromHighAvg180 = b180.change,
                              !.LowVolumeDays180 = lowBlock(records, yesterday, i, Window180)]],
                  highestAvg30 |-> b30.highest,
                  highestAvg90 |-> b90.highest,
                  highestAvg180 |-> b180.highest]

\* The iterations i = lo..hi of "for i := 0; i < len(records); i++", in order.
RECURSIVE statsLoop(_, _, _, _)
statsLoop(st, yesterday, lo, hi) ==
  IF lo > hi \/ lo >= Len(st.records) THEN st
  ELSE IF lo = hi THEN statsStep(st, yesterday, lo)
  ELSE LET mid == (lo + hi) \div 2
           half == statsLoop(st, yesterday, lo, mid)
       IN  statsLoop(half, yesterday, mid + 1, hi)

\* The statistics pass of CalculateRollingAverages: the running maxima start
\* at 0 and the loop runs over all records.
rollingStats(records, yesterday) ==
  statsLoop([records |-> records, highestAvg30 |-> Zero, highestAvg90 |-> Zero,
             highestAvg180 |-> Zero], yesterday, 0, Len(records) - 1).records

\* ------------------------------------------------------------ input files

\* A header row is the tuple of its fields as the reader returns them with
\* the default comma delimiter: the semicolon-separated CoinMarketCap header
\* is one field.
CoinMarketCapHeader ==
  <<"timeOpen;timeClose;timeHigh;timeLow;name;open;high;low;close;volume;marketCap;timestamp">>
CoinGeckoHeader == <<"snapped_at", "price", "market_cap", "total_volume">>

\* A first line the reader cannot split into fields (a quote inside an
\* unquoted field), held as the raw line.
BareQuoteHeader == <<"snapped_at,pri\"ce,market_cap,total_volume">>

\* reader.Read() in detectDataSource: the outcome for the rows of a file.
readHeader(f) ==
  IF f = <<>> THEN "EOF"
  ELSE IF Head(f) = BareQuoteHeader THEN "ParseError"
  ELSE "ok"

\* A data row, as far as parseRecord looks at it: the date field (its layout
\* and the time it denotes), the volume field (whether it is a number, whether
\* blanks surround it, its value) and the number of fields of the row.
Row(layout, t, numeric, spaced, v, nfields) ==
  [date |-> [layout |-> layout, t |-> t],
   volume |-> [numeric |-> numeric, spaced |-> spaced, v |-> v],
   nfields |-> nfields]

At(day, hour, loc) == [abs |-> day * HoursPerDay + hour, loc |-> loc]

\* A well-formed CoinMarketCap row (12 fields) and CoinGecko row (4 fields).
CmcRow(t, v) == Row("RFC3339", t, TRUE, FALSE, v, 12)
GeckoRow(t, v) == Row("Gecko", t, TRUE, FALSE, v, 4)

\* ------------------------------------------------------- detectDataSource

\* detectDataSource looking at the column count and the first name only.
detectDataSourceFirstOnly(header) ==
  IF Len(header) = 4 /\ header[1] = "snapped_at"
    THEN "CoinGecko"
    ELSE "CoinMarketCap"

detectDataSource(header) ==
  IF Len(header) = 4 /\ header[1] = "snapped_at" /\ header[4] = "total_volume"
    THEN "CoinGecko"
    ELSE "CoinMarketCap"

\* ------------------------------------------------------------ parseRecord

\* time.Parse of the date field under the layout the source expects.
parseTime(field, layout) == field.layout = layout

\* strconv.ParseFloat of the volume field; trimmed says whether the caller
\* strips surrounding blanks first.
parseFloat(field, trimmed) == field.numeric /\ (trimmed \/ ~field.spaced)

\* parseRecord taking a volume that is no number as 0.
parseRecordLenient(record, source) ==
  LET layout == IF source = "CoinGecko" THEN "Gecko" ELSE "RFC3339"
      column == IF source = "CoinGecko" THEN 4 ELSE 10
      failed(kind) == [kind |-> kind, timestamp |-> record.date.t, volume |-> 0]
  IN  IF ~parseTime(record.date, layout) THEN failed("error")
      ELSE IF record.nfields < column THEN failed("panic")
      ELSE IF ~parseFloat(record.volume, source = "CoinMarketCap") THEN failed("ok")
      ELSE [kind |-> "ok", timestamp |-> record.date.t, volume |-> record.volume.v]

\* parseRecord: "ok" with the timestamp and the volume, "error", or "panic"
\* when record[9] (record[3]) is read from a row that has no such field.
parseRecord(record, source) ==
  LET layout == IF source = "CoinGecko" THEN "Gecko" ELSE "RFC3339"
      column == IF source = "CoinGecko" THEN 4 ELSE 10
      failed(kind) == [kind |-> kind, timestamp |-> record.date.t, volume |-> 0]
  IN  IF ~parseTime(record.date, layout) THEN failed("error")
      ELSE IF record.nfields < column THEN failed("panic")
      ELSE IF ~parseFloat(record.volume, source = "CoinMarketCap") THEN failed("error")
      ELSE [kind |-> "ok", timestamp |-> record.date.t, volume |-> record.volume.v]

\* strings.Split(filepath.Base(inputFile), "_")[0]: a file's base name is the
\* tuple of its parts between underscores.
tokenName(baseName) == baseName[1]

\* ------------------------------------------------------------------ writer

\* fmt.Sprintf("%.2f", x): x rounded to a whole number of hundredths, halves
\* to the even neighbour.
Sprintf2(x) ==
  LET q == x.n \div x.d
      r == x.n % x.d
  IN  IF 2 * r > x.d \/ (2 * r = x.d /\ q % 2 = 1) THEN q + 1 ELSE q

\* One output row: the record as the writer renders it, the derived fields of
\* a record dated after yesterday zeroed first.
outputRow(record, yesterday) ==
  LET future == After(record.Date, yesterday)
      real(x) == IF future THEN 0 ELSE Sprintf2(x)
      count(k) == IF future THEN 0 ELSE k
  IN  [Name |-> record.Name,
       Date |-> Format(record.Date),
       Volume |-> record.Volume,
       DayAvg30 |-> real(record.DayAvg30),
       DayAvg90 |-> real(record.DayAvg90),
       DayAvg180 |-> real(record.DayAvg180),
       LowVolumeDays30 |-> count(record.LowVolumeDays30),
       LowVolumeDays90 |-> count(record.LowVolumeDays90),
       LowVolumeDays180 |-> count(record.LowVolumeDays180),
       High30 |-> real(record.High30),
       High90 |-> real(record.High90),
       High180 |-> real(record.High180),
       ChangeFromHighAvg30 |-> real(record.ChangeFromHighAvg30),
       ChangeFromHighAvg90 |-> real(record.ChangeFromHighAvg90),
       ChangeFromHighAvg180 |-> real(record.ChangeFromHighAvg180)]

\* outputRows writing the records in the order of the slice.
outputRowsAscending(records, yesterday) ==
  [k \in 1..Len(records) |-> outputRow(records[k], yesterday)]

\* "for i := len(records) - 1; i >= 0; i--": the data rows, newest first.
outputRows(records, yesterday) ==
  [k \in 1..Len(records) |-> outputRow(records[Len(records) - k + 1], yesterday)]

\* ------------------------------------------------------------------- state

VARIABLES
  pc,         \* where the call of CalculateRollingAverages stands
  inputFile,  \* base name of the input file
  file,       \* the rows of the input file the reader has not returned yet
  clock,      \* the instant timeNow() returns
  source,     \* the detected DataSource
  yesterday,  \* the cutoff day of the call
  records,    \* the local slice "records"
  err,        \* the error the call returned
  output,     \* the rows of the output file, header first
  args,       \* arguments of a direct call of fillMissingDays
  filled,     \* the result of that call
  header,     \* the header row detectDataSource has read
  row,        \* the local "record" of the reading loop
  batch,      \* the state of a call of ProcessAllFiles
  fetch,      \* the state of a run of the fetch command
  timeNowCalls, \* how often the call has read timeNow()
  artifacts   \* the files of the output directory: path and rows

vars == <<pc, inputFile, file, clock, source, yesterday, records, err, output,
          args, filled, header, row, batch, fetch, timeNowCalls, artifacts>>

NoTime == [abs |-> 0, loc |-> UTCLoc]
NoOutput == <<>>
NoArgs == [records |-> <<>>, tokenName |-> "", endDate |-> NoTime]
NoHeader == <<>>
NoRow == Row("", NoTime, FALSE, FALSE, 0, 0)
NoBatch == [pc |-> "none", listing |-> <<>>, readDirErr |-> FALSE, next |-> 1,
            calls |-> <<>>, results |-> <<>>]
NoFetch == [pc |-> "none", token |-> "", days |-> 0, slug |-> "", env |-> "ok",
            volumeData |-> <<>>, err |-> "", written |-> <<>>, exit |-> 0]

OutputHeader ==
  <<"Name", "Date", "Volume", "30DayAvg", "90DayAvg", "180DayAvg",
    "LowVolumeDays30", "LowVolumeDays90", "LowVolumeDays180",
    "HighestAvg30", "HighestAvg90", "HighestAvg180",
    "ChangeFromHighAvg30%", "ChangeFromHighAvg90%", "ChangeFromHighAvg180%">>

\* --------------------------------------------------- inputs of the model

\* 2025-03-12, the cutoff day of the repository's tests, as a day number.
BaseDay == 436

\* Instants timeNow() may return: 2025-03-13T00:00Z (the tests' clock) and
\* 2025-03-14T02:00-05:00.
Clocks == {At(BaseDay + 1, 0, UTCLoc), At(BaseDay + 2, 7, FixedZone(-5))}

\* Data rows of CoinMarketCap files: on the cutoff day of the first clock (a
\* volume of exactly 1.00), the day after it (the cutoff day of the second
\* clock, 1.01), 200 days before it (a burst that later leaves the windows),
\* 350 days before it (inside the first 30 days of the horizon), 364 days
\* before it (one day before the horizon of the first clock), a negative
\* volume, and a row whose volume is no number.
CmcRows ==
  {CmcRow(At(BaseDay, 0, UTCLoc), 100),
   CmcRow(At(BaseDay + 1, 0, UTCLoc), 101),
   CmcRow(At(BaseDay - 200, 0, UTCLoc), 9000),
   CmcRow(At(BaseDay - 350, 0, UTCLoc), 400),
   CmcRow(At(BaseDay - 364, 0, UTCLoc), 500),
   CmcRow(At(BaseDay - 2, 0, UTCLoc), -100),
   Row("RFC3339", At(BaseDay - 3, 0, UTCLoc), FALSE, FALSE, 0, 12)}

GeckoRows ==
  {GeckoRow(At(BaseDay - 100, 0, UTCLoc), 250),
   GeckoRow(At(BaseDay - 100, 0, UTCLoc), 40),
   Row("Gecko", At(BaseDay - 4, 0, UTCLoc), TRUE, FALSE, 700, 3)}

SeqsUpTo(S, n) == UNION {[1..k -> S] : k \in 0..n}

\* The input files: empty, or a header and at most MaxRows data rows.
Files ==
  {<<>>} \cup
  {<<CoinMarketCapHeader>> \o rows : rows \in SeqsUpTo(CmcRows, MaxRows)}
    \cup {<<CoinGeckoHeader>> \o rows : rows \in SeqsUpTo(GeckoRows, MaxRows)}

\* ----------------------------------------------- CalculateRollingAverages

\* The output directory before the call: the output file of an earlier run
\* for the same series, which wrote the header only.
PriorArtifacts == {[path |-> "THC", rows |-> <<OutputHeader>>]}

Init ==
  /\ pc = "start"
  /\ inputFile = <<"THC", "usd-max.csv">>
  /\ file \in Files
  /\ clock \in Clocks
  /\ source = "CoinMarketCap"
  /\ yesterday = NoTime
  /\ records = <<>>
  /\ err = ""
  /\ output = NoOutput
  /\ args = NoArgs
  /\ filled = <<>>
  /\ header = NoHeader
  /\ row = NoRow
  /\ batch = NoBatch
  /\ fetch = NoFetch
  /\ timeNowCalls = 0
  /\ artifacts = PriorArtifacts

\* outputFile made of the whole base name of the input file.
outputFileByBaseName(baseName) == baseName

\* The path the callers pass as outputFile: it is made of the series name.
outputFile(baseName) == tokenName(baseName)

\* os.Create(path) followed by the writes of rows: the file at the path is
\* truncated or made, the other files stay.
createFile(files, path, rows) ==
  {f \in files : f.path # path} \cup {[path |-> path, rows |-> rows]}

\* DetectDataSource with the output file created before the input is read.
DetectDataSourceCreatesFirst ==
  /\ pc = "start"
  /\ output' = <<OutputHeader>>
  /\ artifacts' = createFile(artifacts, outputFile(inputFile), output')
  /\ IF readHeader(file) # "ok"
       THEN /\ pc' = "failed"
            /\ err' = "MalformedInput"
            /\ UNCHANGED <<file, source, yesterday, header, timeNowCalls>>
       ELSE /\ source' = detectDataSource(Head(file))
            /\ header' = Head(file)
            /\ file' = Tail(file)
            /\ yesterday' = AddDate(Truncate(UTC(clock)), -1)
            /\ timeNowCalls' = timeNowCalls + 1
            /\ pc' = "read"
            /\ err' = err
  /\ UNCHANGED <<inputFile, clock, records, args, filled, row, batch, fetch>>

\* DetectDataSource with the error of detectDataSource ignored: the source it
\* returns with the error is used.
DetectDataSourceIgnoreErr ==
  /\ pc = "start"
  /\ source' = IF readHeader(file) = "ok" THEN detectDataSource(Head(file))
                ELSE "CoinMarketCap"
  /\ header' = IF readHeader(file) = "ok" THEN Head(file) ELSE NoHeader
  /\ file' = IF file = <<>> THEN file ELSE Tail(file)
  /\ yesterday' = AddDate(Truncate(UTC(clock)), -1)
  /\ timeNowCalls' = timeNowCalls + 1
  /\ pc' = "read"
  /\ err' = err
  /\ UNCHANGED <<inputFile, clock, records, output, args, filled, row, batch, fetch,
                 artifacts>>

\* The header is read and classified, then the cutoff day is taken from the
\* clock: today is the clock's UTC day, yesterday the day before.
DetectDataSource ==
  /\ pc = "start"
  /\ IF readHeader(file) # "ok"
       THEN /\ pc' = "failed"
            /\ err' = "MalformedInput"
            /\ UNCHANGED <<file, source, yesterday, header, timeNowCalls>>
       ELSE /\ source' = detectDataSource(Head(file))
            /\ header' = Head(file)
            /\ file' = Tail(file)
            /\ yesterday' = AddDate(Truncate(UTC(clock)), -1)
            /\ timeNowCalls' = timeNowCalls + 1
            /\ pc' = "read"
            /\ err' = err
  /\ UNCHANGED <<inputFile, clock, records, output, args, filled, row, batch, fetch,
                 artifacts>>

\* One turn of the reading loop: the end of the file ends the loop; a row of
\* the wrong number of fields (CoinGecko files: the reader expects the
\* header's count) or one that does not parse ends the call with an error; a
\* row dated after yesterday is skipped; any other row is appended with its
\* date truncated to the day.
ReadRecord ==
  /\ pc = "read"
  /\ IF file = <<>>
       THEN /\ pc' = "loaded"
            /\ row' = NoRow
            /\ UNCHANGED <<file, records, err>>
       ELSE LET record == Head(file)
                parsed == parseRecord(record, source)
            IN  /\ file' = Tail(file)
                /\ row' = record
                /\ IF source = "CoinGecko" /\ record.nfields # 4
                     THEN /\ pc' = "failed"
                          /\ err' = "ReadError"
                          /\ UNCHANGED records
                     ELSE IF parsed.kind = "panic"
                       THEN /\ pc' = "panic"
                            /\ UNCHANGED <<records, err>>
                     ELSE IF parsed.kind = "error"
                       THEN /\ pc' = "failed"
                            /\ err' = "ParseError"
                            /\ UNCHANGED records
                     ELSE IF After(parsed.timestamp, yesterday)
                       THEN /\ pc' = "read"
                            /\ UNCHANGED <<records, err>>
                     ELSE /\ pc' = "read"
                          /\ records' = Append(records,
                               VolumeData(tokenName(inputFile),
                                          Truncate(parsed.timestamp), parsed.volume))
                          /\ err' = err
  /\ UNCHANGED <<inputFile, clock, source, yesterday, output, args, filled,
                 header, batch, fetch,
                 timeNowCalls, artifacts>>

\* records[k] for the k with !records[k].Date.Before(cutoffDate), in order.
limitRecords(sorted, cutoffDate) ==
  SelectSeq(sorted, LAMBDA r : ~Before(r.Date, cutoffDate))

\* LimitRecords without the check for an empty slice.
LimitRecordsNoCheck ==
  /\ pc = "loaded"
  /\ \E sorted \in SortSlice(records) :
       records' = limitRecords(sorted, AddDate(yesterday, -CutoffBack))
  /\ pc' = "limited"
  /\ err' = err
  /\ UNCHANGED <<inputFile, file, clock, source, yesterday, output, args, filled,
                 header, row, batch, fetch,
                 timeNowCalls, artifacts>>

\* After the loop: no record is an error; otherwise the records are sorted
\* and those older than yesterday - 364 days are dropped.
LimitRecords ==
  /\ pc = "loaded"
  /\ IF Len(records) = 0
       THEN /\ pc' = "failed"
            /\ err' = "NoData"
            /\ UNCHANGED records
       ELSE /\ \E sorted \in SortSlice(records) :
                 records' = limitRecords(sorted, AddDate(yesterday, -CutoffBack))
            /\ pc' = "limited"
            /\ err' = err
  /\ UNCHANGED <<inputFile, file, clock, source, yesterday, output, args, filled,
                 header, row, batch, fetch,
                 timeNowCalls, artifacts>>

\* FillMissingDays taking the end date from the clock again.
FillMissingDaysRereads ==
  /\ pc = "limited"
  /\ timeNowCalls' = timeNowCalls + 1
  /\ records' \in fillMissingDays(records, tokenName(inputFile),
                                  AddDate(Truncate(UTC(clock)), -1))
  /\ pc' = "filled"
  /\ UNCHANGED <<inputFile, file, clock, source, yesterday, err, output, args, filled,
                 header, row, batch, fetch, artifacts>>

\* records = fillMissingDays(records, name, yesterday)
FillMissingDays ==
  /\ pc = "limited"
  /\ records' \in fillMissingDays(records, tokenName(inputFile), yesterday)
  /\ pc' = "filled"
  /\ UNCHANGED <<inputFile, file, clock, source, yesterday, err, output, args, filled,
                 header, row, batch, fetch, timeNowCalls, artifacts>>

\* The loop that computes the rolling statistics.
RollingStats ==
  /\ pc = "filled"
  /\ records' = rollingStats(records, yesterday)
  /\ pc' = "computed"
  /\ UNCHANGED <<inputFile, file, clock, source, yesterday, err, output, args, filled,
                 header, row, batch, fetch,
                 timeNowCalls, artifacts>>

\* The output file is created and the header and the rows are written.
WriteOutput ==
  /\ pc = "computed"
  /\ output' = <<OutputHeader>> \o outputRows(records, yesterday)
  /\ artifacts' = createFile(artifacts, outputFile(inputFile), output')
  /\ pc' = "done"
  /\ UNCHANGED <<inputFile, file, clock, source, yesterday, records, err, args, filled,
                 header, row, batch, fetch, timeNowCalls>>

Next ==
  \/ DetectDataSource
  \/ ReadRecord
  \/ LimitRecords
  \/ FillMissingDays
  \/ RollingStats
  \/ WriteOutput

Spec == Init /\ [][Next]_vars

\* ------------------------------------ the call while the clock advances

\* The clock at the start of the call: 2025-03-13T23:00Z, an hour before
\* the UTC day changes.
ClockStart == At(BaseDay + 1, HoursPerDay - 1, UTCLoc)

InitClock ==
  /\ pc = "start"
  /\ inputFile = <<"THC", "usd-max.csv">>
  /\ file \in {f \in Files : Len(f) <= 2 /\ (f # <<>> => Head(f) = CoinMarketCapHeader)}
  /\ clock = ClockStart
  /\ source = "CoinMarketCap"
  /\ yesterday = NoTime
  /\ records = <<>>
  /\ err = ""
  /\ output = NoOutput
  /\ args = NoArgs
  /\ filled = <<>>
  /\ header = NoHeader
  /\ row = NoRow
  /\ batch = NoBatch
  /\ fetch = NoFetch
  /\ timeNowCalls = 0
  /\ artifacts = PriorArtifacts

\* An hour passes while the call runs: timeNow() returns a later instant
\* from now on.
ClockTick ==
  /\ pc \notin {"done", "failed", "panic"}
  /\ clock.abs < ClockStart.abs + MaxTicks
  /\ clock' = AddHours(clock, 1)
  /\ UNCHANGED <<pc, inputFile, file, source, yesterday, records, err, output, args,
                 filled, header, row, batch, fetch, timeNowCalls, artifacts>>

NextClock ==
  \/ ClockTick
  \/ DetectDataSource
  \/ ReadRecord
  \/ LimitRecords
  \/ FillMissingDays
  \/ RollingStats
  \/ WriteOutput

SpecClock == InitClock /\ [][NextClock]_vars

\* ------------------------------- the reading phase, on more kinds of input

\* Header rows: the two known ones, 4-column headers that share only the
\* first and last name, only the first, or only the last with the CoinGecko
\* header, a 3-column header, and an unreadable line.
ReadHeaders ==
  {CoinMarketCapHeader,
   CoinGeckoHeader,
   <<"snapped_at", "open", "close", "total_volume">>,
   <<"snapped_at", "price", "market_cap", "volume">>,
   <<"date", "price", "market_cap", "total_volume">>,
   <<"snapped_at", "price", "market_cap">>,
   BareQuoteHeader}

\* Data rows: on the cutoff day of the first clock at 00:00Z, at 12:00Z and
\* at 21:00-05:00 of the evening before (02:00Z), on the day after it, a row
\* of a later day whose volume is no number, a volume surrounded by blanks,
\* a row of 5 fields, and CoinGecko rows: well-formed, of 3 fields, with
\* blanks around the volume, and of a later day with a volume that is no
\* number.
ReadRows ==
  {CmcRow(At(BaseDay, 0, UTCLoc), 100),
   CmcRow(At(BaseDay, 12, UTCLoc), 200),
   CmcRow(At(BaseDay, 2, FixedZone(-5)), 400),
   CmcRow(At(BaseDay + 1, 0, UTCLoc), 300),
   Row("RFC3339", At(BaseDay + 5, 0, UTCLoc), FALSE, FALSE, 0, 12),
   Row("RFC3339", At(BaseDay - 2, 0, UTCLoc), TRUE, TRUE, 500, 12),
   Row("RFC3339", At(BaseDay - 3, 0, UTCLoc), TRUE, FALSE, 600, 5),
   GeckoRow(At(BaseDay - 1, 0, UTCLoc), 250),
   Row("Gecko", At(BaseDay - 4, 0, UTCLoc), TRUE, FALSE, 700, 3),
   Row("Gecko", At(BaseDay - 5, 0, UTCLoc), TRUE, TRUE, 800, 4),
   Row("Gecko", At(BaseDay + 5, 0, UTCLoc), FALSE, FALSE, 0, 4)}

\* The input files: empty, or a header and at most MaxRows data rows.
ReadFiles ==
  {<<>>} \cup {<<h>> \o rows : h \in ReadHeaders, rows \in SeqsUpTo(ReadRows, MaxRows)}

InitRead ==
  /\ pc = "start"
  /\ inputFile = <<"THC", "usd-max.csv">>
  /\ file \in ReadFiles
  /\ clock \in Clocks
  /\ source = "CoinMarketCap"
  /\ yesterday = NoTime
  /\ records = <<>>
  /\ err = ""
  /\ output = NoOutput
  /\ args = NoArgs
  /\ filled = <<>>
  /\ header = NoHeader
  /\ row = NoRow
  /\ batch = NoBatch
  /\ fetch = NoFetch
  /\ timeNowCalls = 0
  /\ artifacts = {}

\* CalculateRollingAverages up to the limit to the horizon.
NextRead ==
  \/ DetectDataSource
  \/ ReadRecord
  \/ LimitRecords

SpecRead == InitRead /\ [][NextRead]_vars

\* --------------------------------------------------------- ProcessAllFiles

\* A directory entry: its name as the parts between underscores, the last
\* characters of the name, whether it is a directory, and, for a file, its
\* rows.
Entry(name, suffix, isDir, content) ==
  [name |-> name, suffix |-> suffix, isDir |-> isDir, content |-> content]

\* strings.ToLower on the name endings of the model.
ToLower(str) ==
  CASE str = ".CSV" -> ".csv"
    [] str = ".Csv" -> ".csv"
    [] OTHER -> str

\* strings.HasSuffix(strings.ToLower(entry.Name()), ".csv")
HasCsvSuffix(entry) == ToLower(entry.suffix) = ".csv"

\* The entries a downloads directory may hold, in the order os.ReadDir lists
\* them (sorted by name): two files of the same series, the first with one
\* observation, the second with one of the cutoff day, one inside the first
\* 30 days of the horizon and one older than the horizon, a file of that
\* series with a header only, a directory named like a
\* CSV file, a file whose data row has 5 fields, a file of another series
\* whose only observation is older than the horizon, and a text file.
AllEntries ==
  <<Entry(<<"BBB", "2.csv">>, ".csv", FALSE,
          <<CoinMarketCapHeader, CmcRow(At(BaseDay, 0, UTCLoc), 100)>>),
    Entry(<<"BBB", "5.csv">>, ".csv", FALSE,
          <<CoinMarketCapHeader, CmcRow(At(BaseDay, 0, UTCLoc), 300),
            CmcRow(At(BaseDay - 350, 0, UTCLoc), 400),
            CmcRow(At(BaseDay - 364, 0, UTCLoc), 500)>>),
    Entry(<<"BBB", "6.CSV">>, ".CSV", FALSE, <<CoinMarketCapHeader>>),
    Entry(<<"CCC.csv">>, ".csv", TRUE, <<>>),
    Entry(<<"DDD", "3.csv">>, ".csv", FALSE,
          <<CoinMarketCapHeader,
            Row("RFC3339", At(BaseDay - 3, 0, UTCLoc), TRUE, FALSE, 600, 5)>>),
    Entry(<<"EEE", "4.csv">>, ".csv", FALSE,
          <<CoinMarketCapHeader, CmcRow(At(BaseDay - 400, 0, UTCLoc), 101)>>),
    Entry(<<"notes.txt">>, ".txt", FALSE,
          <<CoinMarketCapHeader, CmcRow(At(BaseDay, 0, UTCLoc), 100)>>)>>

\* The listing made of the entries at the indices S, in order.
ListingOf(S) ==
  [k \in 1..Cardinality(S) |->
     AllEntries[CHOOSE i \in S : Cardinality({j \in S : j < i}) = k - 1]]

\* The directory listings: at most MaxEntries of the entries.
Listings ==
  {ListingOf(S) : S \in {T \in SUBSET DOMAIN AllEntries : Cardinality(T) <= MaxEntries}}

InitBatch ==
  /\ pc = "idle"
  /\ inputFile = <<>>
  /\ file = <<>>
  /\ clock = At(BaseDay + 1, 0, UTCLoc)
  /\ source = "CoinMarketCap"
  /\ yesterday = NoTime
  /\ records = <<>>
  /\ err = ""
  /\ output = NoOutput
  /\ args = NoArgs
  /\ filled = <<>>
  /\ header = NoHeader
  /\ row = NoRow
  /\ \E listing \in Listings, readDirErr \in BOOLEAN :
       batch = [pc |-> "start", listing |-> listing, readDirErr |-> readDirErr,
                next |-> 1, calls |-> <<>>, results |-> <<>>]
  /\ fetch = NoFetch
  /\ timeNowCalls = 0
  /\ artifacts = {}

\* The output directory is made and the downloads directory is read; an
\* error of os.ReadDir is returned.
ProcessAllFiles ==
  /\ batch.pc = "start"
  /\ batch' = [batch EXCEPT !.pc = IF batch.readDirErr THEN "failed" ELSE "loop"]
  /\ UNCHANGED <<pc, inputFile, file, clock, source, yesterday, records, err,
                 output, args, filled, header, row, fetch,
                 timeNowCalls, artifacts>>

\* One turn of "for _, entry := range entries", up to the call: after the
\* last entry nil is returned; a directory or a name without the ending
\* .csv is passed over; for any other entry CalculateRollingAverages is
\* called on the file.
NextEntry ==
  /\ batch.pc = "loop"
  /\ IF batch.next > Len(batch.listing)
       THEN /\ batch' = [batch EXCEPT !.pc = "returned"]
            /\ UNCHANGED <<pc, inputFile, file, source, yesterday, records, err,
                           output, header, row, timeNowCalls>>
       ELSE LET entry == batch.listing[batch.next]
            IN  IF ~entry.isDir /\ HasCsvSuffix(entry)
                  THEN /\ batch' = [batch EXCEPT !.pc = "call",
                                                 !.calls = Append(@, entry.name)]
                       /\ pc' = "start"
                       /\ inputFile' = entry.name
                       /\ file' = entry.content
                       /\ source' = "CoinMarketCap"
                       /\ yesterday' = NoTime
                       /\ records' = <<>>
                       /\ err' = ""
                       /\ output' = NoOutput
                       /\ header' = NoHeader
                       /\ row' = NoRow
                       /\ timeNowCalls' = 0
                  ELSE /\ batch' = [batch EXCEPT !.next = @ + 1]
                       /\ UNCHANGED <<pc, inputFile, file, source, yesterday,
                                      records, err, output, header, row,
                                      timeNowCalls>>
  /\ UNCHANGED <<clock, args, filled, fetch, artifacts>>

\* CalculateRollingAverages returns: its error is printed and the loop goes
\* on with the next entry.
CallReturns ==
  /\ batch.pc = "call"
  /\ pc \in {"done", "failed"}
  /\ batch' = [batch EXCEPT !.pc = "loop", !.next = @ + 1,
                            !.results = Append(@, err)]
  /\ pc' = "idle"
  /\ UNCHANGED <<inputFile, file, clock, source, yesterday, records, err, output,
                 args, filled, header, row, fetch,
                 timeNowCalls, artifacts>>

NextBatch ==
  \/ ProcessAllFiles
  \/ NextEntry
  \/ CallReturns
  \/ DetectDataSource
  \/ ReadRecord
  \/ LimitRecords
  \/ FillMissingDays
  \/ RollingStats
  \/ WriteOutput

SpecBatch == InitBatch /\ [][NextBatch]_vars

\* -------------------------------------------------------- the fetch command

\* strings.ToUpper on the token symbols of the model.
ToUpper(str) ==
  CASE str = "btc" -> "BTC"
    [] str = "Doge" -> "DOGE"
    [] str = "thc" -> "THC"
    [] OTHER -> str

\* strings.ToLower on the token symbols of the model.
TokenToLower(str) ==
  CASE str = "MAID" -> "maid"
    [] str = "ETH" -> "eth"
    [] str = "Doge" -> "doge"
    [] OTHER -> str

\* The slug of a token: from the map tokenToSlug, or the token in lower case.
slugOf(token) ==
  CASE ToUpper(token) = "MAID" -> "maidsafecoin"
    [] ToUpper(token) = "BTC" -> "bitcoin"
    [] ToUpper(token) = "ETH" -> "ethereum"
    [] OTHER -> TokenToLower(token)

\* What the surroundings do to a run: nothing, or the first call that fails.
FetchEnvs == {"ok", "MkdirAll", "downloads", "TempDir", "network", "navigation"}

FetchTokens == {"MAID", "btc", "ETH", "thc", "Doge"}
FetchDayCounts == {1, Window30, FetchDays, FullYearDays, FullYearDays + 1}

InitFetch ==
  /\ pc = "idle"
  /\ inputFile = <<>>
  /\ file = <<>>
  /\ clock \in Clocks
  /\ source = "CoinMarketCap"
  /\ yesterday = NoTime
  /\ records = <<>>
  /\ err = ""
  /\ output = NoOutput
  /\ args = NoArgs
  /\ filled = <<>>
  /\ header = NoHeader
  /\ row = NoRow
  /\ batch = NoBatch
  /\ \E token \in FetchTokens, days \in FetchDayCounts, env \in FetchEnvs :
       fetch = [NoFetch EXCEPT !.pc = "start", !.token = token, !.days = days,
                               !.env = env]
  /\ timeNowCalls = 0
  /\ artifacts = {}

FetchUnchanged ==
  UNCHANGED <<pc, inputFile, file, clock, source, yesterday, records, err, output,
              args, filled, header, row, batch,
                 timeNowCalls, artifacts>>

\* handleFetch up to the call of GetHistoricalVolume: the download directory
\* is made (the run exits with 1 when that fails), a day count of 365 or
\* more becomes 364, and the end date is the day before now.
HandleFetch ==
  /\ fetch.pc = "start"
  /\ fetch' = IF fetch.env = "MkdirAll"
                THEN [fetch EXCEPT !.pc = "exited", !.exit = 1,
                                   !.err = "creating download directory"]
                ELSE [fetch EXCEPT !.pc = "get",
                                   !.days = IF @ >= FullYearDays THEN FetchDays ELSE @]
  /\ yesterday' = AddDate(clock, -1)
  /\ UNCHANGED <<pc, inputFile, file, clock, source, records, err, output,
                 args, filled, header, row, batch,
                 timeNowCalls, artifacts>>

\* GetHistoricalVolume up to the call of manualDownloadApproach: the slug is
\* looked up and the directory "downloads" is made if it is missing.
GetHistoricalVolume ==
  /\ fetch.pc = "get"
  /\ fetch' = IF fetch.env = "downloads"
                THEN [fetch EXCEPT !.pc = "got", !.slug = slugOf(fetch.token),
                                   !.err = "creating downloads directory"]
                ELSE [fetch EXCEPT !.pc = "manual", !.slug = slugOf(fetch.token)]
  /\ FetchUnchanged

\* manualDownloadApproach and the rest of GetHistoricalVolume: every return
\* of manualDownloadApproach is (nil, error), so "err == nil &&
\* len(volumeData) > 0" is false and GetHistoricalVolume returns the error
\* that asks for a manual download.
ManualDownloadApproach ==
  /\ fetch.pc = "manual"
  /\ LET result ==
           [volumeData |-> <<>>,
            err |-> CASE fetch.env = "TempDir" -> "creating temp directory"
                      [] fetch.env = "network" -> "enabling network"
                      [] fetch.env = "navigation" -> "initial page navigation"
                      [] OTHER -> "manual download required"]
     IN  fetch' = IF result.err = "" /\ Len(result.volumeData) > 0
                    THEN [fetch EXCEPT !.pc = "got", !.volumeData = result.volumeData]
                    ELSE [fetch EXCEPT !.pc = "got",
                                       !.err = "automatic data retrieval failed"]
  /\ FetchUnchanged

\* The end of handleFetch: an error ends the run with exit status 1;
\* otherwise writeCSV writes the header Date,Volume and a row for each record.
WriteCSV ==
  /\ fetch.pc = "got"
  /\ fetch' = IF fetch.err # ""
                THEN [fetch EXCEPT !.pc = "exited", !.exit = 1]
                ELSE [fetch EXCEPT !.pc = "exited",
                                   !.written = <<<<"Date", "Volume">>>> \o @.volumeData]
  /\ FetchUnchanged

NextFetch ==
  \/ HandleFetch
  \/ GetHistoricalVolume
  \/ ManualDownloadApproach
  \/ WriteCSV

SpecFetch == InitFetch /\ [][NextFetch]_vars

\* ------------------------------------------- fillMissingDays, called alone

Obs(day, loc, v) == VolumeData("THC", At(day, 0, loc), v)

\* Observations as the reading loop builds them (instants truncated to UTC
\* midnight, the Location of the parsed timestamp kept): two on the cutoff
\* day with different volumes, the day before it, the first day of the
\* horizon and the day before that, and two whose calendar day is the same
\* although their instants differ (the first carries the Location -05:00).
ObsChoices ==
  {Obs(BaseDay, UTCLoc, 100),
   Obs(BaseDay, UTCLoc, 250),
   Obs(BaseDay - 1, UTCLoc, 101),
   Obs(BaseDay - 363, UTCLoc, 300),
   Obs(BaseDay - 364, UTCLoc, 500),
   Obs(BaseDay - 5, FixedZone(-5), 70),
   Obs(BaseDay - 6, UTCLoc, 80)}

\* Twelve more observations, newest first as CoinMarketCap files list them,
\* on the days 20 to 31 before the cutoff day: with them a list is longer
\* than the 12 elements sort.Slice sorts by insertion.
Padding == [k \in 1..12 |-> Obs(BaseDay - 19 - k, UTCLoc, 300)]

ObsLists ==
  LET chosen == SeqsUpTo(ObsChoices, MaxObs)
  IN  chosen \cup {c \o Padding : c \in chosen}

\* America/New_York around 2024 and 2025: UTC-5, and UTC-4 from 2024-03-10
\* 07:00Z to 2024-11-03 06:00Z and from 2025-03-09 07:00Z to 2025-11-02 06:00Z.
NewYork ==
  [base |-> -5,
   trans |-> <<[at |-> 69 * 24 + 7, off |-> -4], [at |-> 307 * 24 + 6, off |-> -5],
               [at |-> 433 * 24 + 7, off |-> -4], [at |-> 671 * 24 + 6, off |-> -5]>>]

\* The end dates CalculateRollingAverages and the unit test pass: UTC midnights.
CutoffDays == {At(BaseDay, 0, UTCLoc), At(BaseDay + 1, 0, UTCLoc)}

\* Any time.Time as end date: also a time of day, a fixed offset, and
\* instants in a Location with daylight saving time (2025-03-08 19:00 and
\* 2025-11-01 19:00 in New York).
AnyEndDates ==
  CutoffDays \cup
    {At(BaseDay, 15, UTCLoc), At(BaseDay, 3, FixedZone(5)),
     At(433, 0, NewYork), At(670, 23, NewYork)}

FillInit(endDates) ==
  /\ pc = "call"
  /\ args \in [records : ObsLists, tokenName : {"THC"}, endDate : endDates]
  /\ filled = <<>>
  /\ inputFile = <<"THC", "usd-max.csv">>
  /\ file = <<>>
  /\ clock = NoTime
  /\ source = "CoinMarketCap"
  /\ yesterday = NoTime
  /\ records = <<>>
  /\ err = ""
  /\ output = NoOutput
  /\ header = NoHeader
  /\ row = NoRow
  /\ batch = NoBatch
  /\ fetch = NoFetch
  /\ timeNowCalls = 0
  /\ artifacts = {}

InitFill == FillInit(CutoffDays)
InitFillAny == FillInit(AnyEndDates)

\* fillMissingDays(records, tokenName, endDate), as the unit test calls it.
CallFillMissingDays ==
  /\ pc = "call"
  /\ filled' \in fillMissingDays(args.records, args.tokenName, args.endDate)
  /\ pc' = "returned"
  /\ UNCHANGED <<inputFile, file, clock, source, yesterday, records, err, output, args,
                 header, row, batch, fetch,
                 timeNowCalls, artifacts>>

\* The same call on records the caller has sorted first, as
\* CalculateRollingAverages does.
CallSortedFillMissingDays ==
  /\ pc = "call"
  /\ \E sorted \in SortSlice(args.records) :
       filled' \in fillMissingDays(sorted, args.tokenName, args.endDate)
  /\ pc' = "returned"
  /\ UNCHANGED <<inputFile, file, clock, source, yesterday, records, err, output, args,
                 header, row, batch, fetch,
                 timeNowCalls, artifacts>>

NextFill ==
  \/ CallFillMissingDays
  \/ CallSortedFillMissingDays

SpecFill == InitFill /\ [][NextFill]_vars
SpecFillAny == InitFillAny /\ [][NextFill]_vars

\* =================================================================== claims

\* The calendar day a record stands for: the day its Date shows in the
\* record's own Location, which is the key of existingDates and the Date
\* column of the output.
DayOf(r) == Format(r.Date)

\* The cutoff day of a call of fillMissingDays: the UTC day of its end date.
CutoffDayOf(endDate) == Format(Truncate(UTC(endDate)))

\* The days of the observations handed to the call.
ObservedDays == {DayOf(args.records[k]) : k \in DOMAIN args.records}

C2_WritesHorizonRows ==
  pc = "done" =>
     /\ Len(output) = HorizonDays + 1
     /\ output[1] = OutputHeader
     /\ {output[k].Date : k \in 2..Len(output)} =
          (Format(yesterday) - HorizonBack)..Format(yesterday)

\* C3: in the result of fillMissingDays each record is dated exactly one
\* calendar day after the record before it.
C3_ConsecutiveDays ==
  pc = "returned" =>
     \A k \in 1..(Len(filled) - 1) : DayOf(filled[k + 1]) = DayOf(filled[k]) + 1

\* C3 witness: a result that holds records taken from the observations next
\* to zero-filled ones.
C3_Witness ==
  /\ pc = "returned"
  /\ Len(filled) = HorizonDays
  /\ \E k \in 1..(Len(filled) - 1) :
       /\ DayOf(filled[k]) \in ObservedDays
       /\ DayOf(filled[k + 1]) \notin ObservedDays
  /\ \E k \in 1..(Len(filled) - 1) :
       /\ DayOf(filled[k]) \in ObservedDays
       /\ DayOf(filled[k + 1]) \in ObservedDays

\* C4: for every day of the horizon the result holds a record; on a day some
\* observation is dated, the record carries the volume of an observation of
\* that day, and on any other day the volume 0.
C4_VolumeOrZero ==
  (pc = "returned" /\ Len(args.records) > 0) =>
     /\ \A d \in (CutoffDayOf(args.endDate) - HorizonBack)..CutoffDayOf(args.endDate) :
          \E k \in DOMAIN filled : DayOf(filled[k]) = d
     /\ \A k \in DOMAIN filled :
          IF DayOf(filled[k]) \in ObservedDays
            THEN \E m \in DOMAIN args.records :
                   /\ DayOf(args.records[m]) = DayOf(filled[k])
                   /\ filled[k].Volume = args.records[m].Volume
            ELSE filled[k].Volume = 0

\* C4 witness: a result with an observed day of non-zero volume, observed in
\* a Location other than UTC, and a day no observation is dated.
C4_Witness ==
  /\ pc = "returned"
  /\ \E k \in DOMAIN filled :
       /\ DayOf(filled[k]) \in ObservedDays
       /\ filled[k].Volume # 0
       /\ filled[k].Date.loc # UTCLoc
  /\ \E k \in DOMAIN filled : DayOf(filled[k]) \notin ObservedDays

\* C5: when several observations are dated the same calendar day, the
\* record of that day carries the volume of the one latest in the list.
C5_LastParsedWins ==
  pc = "returned" =>
     \A k \in DOMAIN filled :
        DayOf(filled[k]) \in ObservedDays =>
          LET last == CHOOSE m \in DOMAIN args.records :
                        /\ DayOf(args.records[m]) = DayOf(filled[k])
                        /\ \A n \in DOMAIN args.records :
                             DayOf(args.records[n]) = DayOf(filled[k]) => n <= m
          IN  filled[k].Volume = args.records[last].Volume

\* ---- the statistics, read off the records after the statistics loop

Windows == {Window30, Window90, Window180}

AvgAt(i, w) ==
  CASE w = Window30 -> records[i + 1].DayAvg30
    [] w = Window90 -> records[i + 1].DayAvg90
    [] OTHER -> records[i + 1].DayAvg180

LowAt(i, w) ==
  CASE w = Window30 -> records[i + 1].LowVolumeDays30
    [] w = Window90 -> records[i + 1].LowVolumeDays90
    [] OTHER -> records[i + 1].LowVolumeDays180

HighAt(i, w) ==
  CASE w = Window30 -> records[i + 1].High30
    [] w = Window90 -> records[i + 1].High90
    [] OTHER -> records[i + 1].High180

ChangeAt(i, w) ==
  CASE w = Window30 -> records[i + 1].ChangeFromHighAvg30
    [] w = Window90 -> records[i + 1].ChangeFromHighAvg90
    [] OTHER -> records[i + 1].ChangeFromHighAvg180

\* The statistics loop has run over a 364-record sequence.
Computed == pc = "computed" /\ Len(records) = HorizonDays

\* The 0-based indices of the sequence, and those with a complete window.
Indices == 0..(HorizonDays - 1)
Complete(w) == (w - 1)..(HorizonDays - 1)

\* The indices (0-based) of the records of non-zero volume.
NonZero == {i \in Indices : records[i + 1].Volume # 0}

RECURSIVE VolumeSum(_)
VolumeSum(S) ==
  IF S = {} THEN 0
  ELSE LET i == CHOOSE i \in S : TRUE
       IN  records[i + 1].Volume + VolumeSum(S \ {i})

\* The sum of the volumes at the indices i-w+1..i.
WindowSum(i, w) == VolumeSum({k \in NonZero : i - w + 1 <= k /\ k <= i})

\* The number of indices in i-w+1..i whose volume is at most 1.00.
WindowLow(i, w) ==
  Cardinality({k \in (i - w + 1)..i : records[k + 1].Volume <= LowVolumeThreshold})

\* C6: at an index with fewer than w days at or before it the average, the
\* low-volume-day count, the high and the change from the high of window w
\* are 0; from index w-1 on the average and the count are those of the w
\* records ending at the index.
C6_ZeroUntilWindowComplete ==
  Computed =>
     \A w \in Windows : \A i \in Indices :
        IF i < w - 1
          THEN /\ AvgAt(i, w) = Zero
               /\ LowAt(i, w) = 0
               /\ HighAt(i, w) = Zero
               /\ ChangeAt(i, w) = Zero
          ELSE /\ AvgAt(i, w).n * w = WindowSum(i, w) * AvgAt(i, w).d
               /\ LowAt(i, w) = WindowLow(i, w)

\* C6 witness: a sequence with a volume inside the first 29 days, whose
\* 30-day fields are 0 there, and a non-zero 30-day average at index 29.
C6_Witness ==
  /\ Computed
  /\ \E i \in 0..(Window30 - 2) : records[i + 1].Volume # 0
  /\ AvgAt(Window30 - 1, Window30).n # 0

\* C7: at an index with a complete window the average is the sum of the
\* volumes of the w records ending there divided by w.
C7_AverageIsSumOverWindow ==
  Computed =>
     \A w \in Windows : \A i \in Complete(w) :
        RatEq(AvgAt(i, w), [n |-> WindowSum(i, w), d |-> w])

\* C7 witness: a complete window with a non-zero sum that holds zero-filled days.
C7_Witness ==
  /\ Computed
  /\ \E w \in Windows : \E i \in Complete(w) :
       /\ WindowSum(i, w) # 0
       /\ \E k \in (i - w + 1)..i : records[k + 1].Volume = 0

\* C8: at an index with a complete window the low-volume-day count is the
\* number of the w records ending there whose volume is at most 1.00.
C8_LowVolumeDaysCount ==
  Computed =>
     \A w \in Windows : \A i \in Complete(w) : LowAt(i, w) = WindowLow(i, w)

\* C8 witness: a complete 30-day window that holds a day of volume 1.00 and
\* a day of volume 1.01, of which only the first is counted.
C8_Witness ==
  /\ Computed
  /\ \E i \in Complete(Window30) :
       /\ \E k \in (i - Window30 + 1)..i : records[k + 1].Volume = LowVolumeThreshold
       /\ \E k \in (i - Window30 + 1)..i : records[k + 1].Volume = LowVolumeThreshold + 1
       /\ LowAt(i, Window30) = Window30 - 1

\* C9: along the indices with a complete window the recorded high never
\* decreases.
C9_HighNonDecreasing ==
  Computed =>
     \A w \in Windows : \A i \in Complete(w) : \A j \in i..(HorizonDays - 1) :
        RatLe(HighAt(i, w), HighAt(j, w))

\* C9 witness: a high that rises along the sequence and a later average
\* below the high.
C9_Witness ==
  /\ Computed
  /\ \E w \in Windows : \E i \in Complete(w) : \E j \in i..(HorizonDays - 1) :
       /\ RatGt(HighAt(j, w), HighAt(i, w))
       /\ RatGt(HighAt(HorizonDays - 1, w), AvgAt(HorizonDays - 1, w))

\* C10: at an index with a complete window the high is the largest of 0 and
\* the averages of the same window at the indices with a complete window up
\* to and including this one.
C10_HighIsRunningMaximum ==
  Computed =>
     \A w \in Windows : \A i \in Complete(w) :
        /\ RatLe(Zero, HighAt(i, w))
        /\ \A k \in (w - 1)..i : RatLe(AvgAt(k, w), HighAt(i, w))
        /\ \/ RatEq(HighAt(i, w), Zero)
           \/ \E k \in (w - 1)..i : RatEq(HighAt(i, w), AvgAt(k, w))

\* C10 witness: a day whose average sets a new high, a later day whose
\* average is below the high, and different highs for two window sizes.
C10_Witness ==
  /\ Computed
  /\ \E i \in Complete(Window30) :
       /\ i > Window30 - 1
       /\ RatGt(HighAt(i, Window30), HighAt(i - 1, Window30))
       /\ RatEq(HighAt(i, Window30), AvgAt(i, Window30))
  /\ RatGt(HighAt(HorizonDays - 1, Window30), AvgAt(HorizonDays - 1, Window30))
  /\ ~RatEq(HighAt(HorizonDays - 1, Window30), HighAt(HorizonDays - 1, Window90))
  /\ RatGt(HighAt(HorizonDays - 1, Window90), Zero)

\* C11: where the high of a window is above 0 the change from the high is
\* ((average - high) / high) * 100 and is at most 0; where the high is 0 the
\* change from the high is 0.
C11_ChangeFromHigh ==
  Computed =>
     \A w \in Windows : \A i \in Indices :
        IF RatGt(HighAt(i, w), Zero)
          THEN /\ RatLe(ChangeAt(i, w), Zero)
               /\ RatEq(ChangeAt(i, w),
                        RatMul(RatDiv(RatSub(AvgAt(i, w), HighAt(i, w)), HighAt(i, w)),
                               FromInt(Percent)))
          ELSE ChangeAt(i, w) = Zero

\* C11 witness: a complete window with high 0, and a later day whose average
\* has fallen below a high above 0.
C11_Witness ==
  /\ Computed
  /\ \E w \in Windows : \E i \in Complete(w) : \E j \in i..(HorizonDays - 1) :
       /\ HighAt(i, w) = Zero
       /\ RatGt(HighAt(j, w), Zero)
       /\ RatGt(Zero, ChangeAt(j, w))

\* C12: the data rows of the output are in descending date order: the first
\* is the cutoff day, each following one a day earlier, and row k is the
\* k-th record from the end of the sequence.
C12_OutputDescending ==
  pc = "done" =>
     \A k \in 2..Len(output) :
        /\ output[k].Date = Format(yesterday) - (k - 2)
        /\ output[k].Date = DayOf(records[Len(records) - (k - 2)])
        /\ output[k].Volume = records[Len(records) - (k - 2)].Volume

\* C12 witness: a written file of 364 data rows whose first data row is an
\* observation of the cutoff day and whose last is a zero-filled day.
C12_Witness ==
  /\ pc = "done"
  /\ Len(output) = HorizonDays + 1
  /\ output[2].Volume # 0
  /\ output[Len(output)].Volume = 0

\* The UTC calendar day of an instant.
DayUTC(t) == t.abs \div HoursPerDay

\* C13: a row that parses is skipped exactly when its UTC calendar day is
\* after the cutoff day; otherwise it is appended as the observation of its
\* day.
C13_SkippedIffAfterCutoffDay ==
  [][(pc = "read" /\ pc' = "read") =>
       IF DayUTC(row'.date.t) > DayUTC(yesterday)
         THEN records' = records
         ELSE records' = Append(records,
                VolumeData(tokenName(inputFile), Truncate(row'.date.t),
                           row'.volume.v))]_vars

\* C14 as stated: the source is CoinGecko exactly for the header
\* snapped_at,price,market_cap,total_volume.
C14_GeckoOnlyForExactHeader ==
  header # NoHeader => (source = "CoinGecko" <=> header = CoinGeckoHeader)

\* C14: the source is CoinGecko exactly for the 4-column headers whose first
\* name is snapped_at and whose last name is total_volume, and CoinMarketCap
\* for every other header that can be read.
C14_GeckoForFirstLastPair ==
  header # NoHeader =>
     /\ source \in {"CoinGecko", "CoinMarketCap"}
     /\ source = "CoinGecko" <=>
          /\ Len(header) = 4
          /\ header[1] = CoinGeckoHeader[1]
          /\ header[Len(header)] = CoinGeckoHeader[4]
     /\ header = CoinGeckoHeader => source = "CoinGecko"

\* C14 witness: a 4-column header other than the CoinGecko one classified as
\* CoinGecko, its rows being read.
C14_Witness ==
  /\ pc = "read"
  /\ Len(header) = 4
  /\ header # CoinGeckoHeader
  /\ source = "CoinGecko"

\* C15: when the reading loop ends with no record kept, the call fails with
\* NoData; a call that failed with NoData kept no record.
C15_NoDataWhenNothingSurvives ==
  [][/\ (pc = "loaded" /\ Len(records) = 0) => (pc' = "failed" /\ err' = "NoData")
     /\ (pc' = "failed" /\ err' = "NoData") => (Len(records') = 0 /\ file' = <<>>)]_vars

\* C15 witness: a call that failed with NoData on a file of a header only.
C15_Witness ==
  /\ pc = "failed"
  /\ err = "NoData"
  /\ header = CoinMarketCapHeader
  /\ records = <<>>

\* A row whose date field or whose volume field does not parse under the
\* format of the source.
BadField(record, src) ==
  \/ record.date.layout # (IF src = "CoinGecko" THEN "Gecko" ELSE "RFC3339")
  \/ /\ record.nfields >= (IF src = "CoinGecko" THEN 4 ELSE 10)
     /\ \/ ~record.volume.numeric
        \/ src = "CoinGecko" /\ record.volume.spaced

\* C16: the reading of a row whose date or volume does not parse ends the
\* call with an error at once: no record is added, and after the error
\* nothing more is read.
C16_FirstBadRowAborts ==
  [][/\ (pc = "read" /\ file # <<>> /\ BadField(Head(file), source)) =>
          (pc' = "failed" /\ err' # "" /\ records' = records /\ row' = Head(file))
     /\ pc = "failed" => file' = file]_vars

\* C16 witness: a call that failed on a row dated after the cutoff day, with
\* rows left unread.
C16_Witness ==
  /\ pc = "failed"
  /\ err = "ParseError"
  /\ After(row.date.t, yesterday)
  /\ file # <<>>

\* C17: when the header cannot be read the call fails with the error of
\* detectDataSource and no data row is read.
C17_UnreadableHeaderFails ==
  (pc # "start" /\ header = NoHeader) =>
     /\ pc = "failed"
     /\ err = "MalformedInput"
     /\ row = NoRow
     /\ records = <<>>

\* C17 witness: a failed call on an empty file.
C17_Witness ==
  /\ pc = "failed"
  /\ err = "MalformedInput"
  /\ file = <<>>

\* C20: no row makes the call end abnormally.
C20_NoAbnormalEnd == pc # "panic"

\* The names of the entries of the listing that are files whose name ends
\* in .csv, in the order of the listing.
CsvFiles(listing) ==
  LET sel == SelectSeq(listing, LAMBDA e : ~e.isDir /\ HasCsvSuffix(e))
  IN  [k \in DOMAIN sel |-> sel[k].name]

\* The run of ProcessAllFiles has ended: it returned, or the process died.
BatchEnded == batch.pc = "returned" \/ (batch.pc = "call" /\ pc = "panic")

\* C18: while ProcessAllFiles runs, the calls made are those for the CSV
\* files of the listing so far, in order, each once; when the run has ended
\* every CSV file of the listing has been called, whatever the earlier calls
\* returned.
C18_EveryCsvFileProcessed ==
  /\ batch.pc \in {"loop", "call", "returned"} =>
       \E n \in 0..Len(CsvFiles(batch.listing)) :
          batch.calls = SubSeq(CsvFiles(batch.listing), 1, n)
  /\ BatchEnded => batch.calls = CsvFiles(batch.listing)

\* C19: a run of the fetch command in which no call to the surroundings
\* fails ends with the records of GetHistoricalVolume written under the
\* header Date,Volume.
C19_FetchWritesCsv ==
  (fetch.pc = "exited" /\ fetch.env = "ok") =>
     /\ fetch.exit = 0
     /\ Len(fetch.volumeData) > 0
     /\ Len(fetch.written) = Len(fetch.volumeData) + 1

\* ---- the call as a whole: horizon, names, output file, derived bounds

\* C21: after the limit to the horizon every retained record is dated
\* inside the 364 days from the cutoff day minus 363 days to the cutoff day.
C21_RetainedInsideHorizon ==
  pc = "limited" =>
     \A k \in DOMAIN records :
        DayUTC(records[k].Date) \in
          (DayUTC(yesterday) - HorizonBack)..DayUTC(yesterday)

\* C23: every data row of the output, of an observed day or of a zero-filled
\* day, carries the part of the input file's base name before the first
\* underscore as its Name.
C23_NameIsSeriesName ==
  pc = "done" => \A k \in 2..Len(output) : output[k].Name = Head(inputFile)

\* C23 witness: a written file with the row of an observation and rows of
\* zero-filled days (no observation of the model has the volume 0).
C23_Witness ==
  /\ pc = "done"
  /\ Len(output) = HorizonDays + 1
  /\ \E k \in 2..Len(output) : output[k].Volume # 0
  /\ \E k \in 2..Len(output) : output[k].Volume = 0

\* C24: a step that ends the call with an error leaves the files of the
\* output directory as they were and the call has written nothing; the only
\* step that changes the output file is the one after the statistics loop.
C24_OutputOnlyAfterStatistics ==
  [][/\ pc' = "failed" => (artifacts' = artifacts /\ output' = NoOutput)
     /\ (artifacts' # artifacts \/ output' # output) =>
          (pc = "computed" /\ pc' = "done")]_vars

\* C24 witness: a call that failed on a row after it had parsed another one,
\* with the file of the earlier run still in place.
C24_Witness ==
  /\ pc = "failed"
  /\ err = "ParseError"
  /\ Len(records) > 0
  /\ artifacts = PriorArtifacts

\* C26: no record the statistics loop and the writer see is dated after
\* yesterday; so at every index from w-1 on the window is complete (the
\* average is the window's sum over w), before it the fields are 0, and
\* the writer renders the fields of every record as they were computed.
C26_NoFutureRecords ==
  /\ pc \in {"filled", "computed", "done"} =>
       \A k \in DOMAIN records : ~After(records[k].Date, yesterday)
  /\ Computed =>
       \A w \in Windows : \A i \in Indices :
          IF i < w - 1 THEN AvgAt(i, w) = Zero
          ELSE RatEq(AvgAt(i, w), [n |-> WindowSum(i, w), d |-> w])
  /\ pc = "done" =>
       \A k \in 2..Len(output) :
          LET r == records[Len(records) - (k - 2)]
          IN  /\ output[k].DayAvg30 = Sprintf2(r.DayAvg30)
              /\ output[k].High180 = Sprintf2(r.High180)
              /\ output[k].LowVolumeDays90 = r.LowVolumeDays90

\* C26 witness: statistics computed over a sequence whose last record is an
\* observation dated the instant of yesterday itself.
C26_Witness ==
  /\ Computed
  /\ records[HorizonDays].Date.abs = yesterday.abs
  /\ records[HorizonDays].Volume # 0
  /\ AvgAt(HorizonDays - 1, Window180) # Zero

\* The data rows of the input file of the call ProcessAllFiles is making.
InputRows == Tail(batch.listing[batch.next].content)

\* The observations of the rows of the input file dated in the horizon, from
\* the cutoff day minus 363 days to the cutoff day.
RecentObservations ==
  LET recent == SelectSeq(InputRows,
                  LAMBDA r : /\ ~After(r.date.t, yesterday)
                             /\ DayUTC(r.date.t) >= DayUTC(yesterday) - HorizonBack)
  IN  [k \in DOMAIN recent |->
         VolumeData(Head(inputFile), Truncate(recent[k].date.t), recent[k].volume.v)]

\* C27: the densified sequence is the one the rows of the horizon alone
\* give (all volumes 0 when there is none), whatever older rows the file
\* holds; and the statistics of window w are 0 on the first w-1 days, so
\* they are other than 0 on at most 335, 275 and 185 rows.
C27_OlderHistoryIgnored ==
  /\ (batch.pc = "call" /\ pc = "filled" /\ Len(records) > 0) =>
       IF RecentObservations = <<>>
         THEN \A k \in DOMAIN records : records[k].Volume = 0
         ELSE records \in fillMissingDays(RecentObservations, Head(inputFile), yesterday)
  /\ Computed =>
       \A w \in Windows :
          /\ \A i \in 0..(w - 2) :
               /\ AvgAt(i, w) = Zero
               /\ LowAt(i, w) = 0
               /\ HighAt(i, w) = Zero
               /\ ChangeAt(i, w) = Zero
          /\ Cardinality({i \in Indices : AvgAt(i, w) # Zero \/ LowAt(i, w) # 0})
               <= HorizonDays - (w - 1)

\* C27 witness: statistics computed for a file that holds a row older than
\* the horizon and one inside the first 29 days of the horizon.
C27_Witness ==
  /\ batch.pc = "call"
  /\ Computed
  /\ \E m \in DOMAIN InputRows :
       DayUTC(InputRows[m].date.t) < DayUTC(yesterday) - HorizonBack
  /\ \E i \in 0..(Window30 - 2) : records[i + 1].Volume # 0

\* The number of indices in i-w+1..i of volume 0, which the days without
\* an observation have.
WindowZero(i, w) ==
  Cardinality({k \in (i - w + 1)..i : records[k + 1].Volume = 0})

\* C28: where the windows are complete the low-volume-day counts are nested,
\* 0 <= count30 <= count90 <= count180, the count of window w is at most w,
\* and it is at least the number of days of the window of volume 0, the
\* volume of every day without an observation.
C28_LowVolumeDaysNested ==
  Computed =>
     /\ \A i \in Complete(Window90) :
          LowAt(i, Window30) <= LowAt(i, Window90)
     /\ \A i \in Complete(Window180) :
          LowAt(i, Window90) <= LowAt(i, Window180)
     /\ \A w \in Windows : \A i \in Complete(w) :
          /\ 0 <= LowAt(i, w)
          /\ LowAt(i, w) <= w
          /\ WindowZero(i, w) <= LowAt(i, w)

\* C28 witness: an index where the three counts differ, none is the
\* window's length and zero-filled days are counted.
C28_Witness ==
  /\ Computed
  /\ \E i \in Complete(Window180) :
       /\ LowAt(i, Window30) < Window30
       /\ LowAt(i, Window30) < LowAt(i, Window90)
       /\ LowAt(i, Window90) < LowAt(i, Window180)
       /\ LowAt(i, Window180) < Window180
       /\ WindowZero(i, Window30) > 0

\* C29: when no record has a negative volume, for each window the average
\* is between 0 and the recorded high and the change from the high between
\* -100 and 0; a row with a negative volume that is not dated after
\* yesterday is appended with that volume.
C29_BoundsOfDerivedFields ==
  /\ (Computed /\ \A k \in DOMAIN records : records[k].Volume >= 0) =>
       \A w \in Windows : \A i \in Indices :
          /\ RatLe(Zero, AvgAt(i, w))
          /\ RatLe(AvgAt(i, w), HighAt(i, w))
          /\ RatLe(FromInt(-Percent), ChangeAt(i, w))
          /\ RatLe(ChangeAt(i, w), Zero)
  /\ (/\ pc = "read"
      /\ row # NoRow
      /\ row.volume.numeric
      /\ row.volume.v < 0
      /\ ~After(row.date.t, yesterday)) =>
       (Len(records) > 0 /\ records[Len(records)].Volume = row.volume.v)

\* C29 witness: non-negative volumes with an average that has fallen from a
\* positive high to 0, a change of -100.
C29_Witness ==
  /\ Computed
  /\ \A k \in DOMAIN records : records[k].Volume >= 0
  /\ \E i \in Complete(Window30) :
       /\ RatGt(HighAt(i, Window30), Zero)
       /\ RatEq(ChangeAt(i, Window30), FromInt(-Percent))
       /\ \E j \in Complete(Window30) :
            RatGt(AvgAt(j, Window30), Zero) /\ RatGt(HighAt(j, Window30), AvgAt(j, Window30))

\* The call has read the header: it is past the point where the clock is read.
PastHeader == pc \notin {"start", "idle"} /\ header # NoHeader

\* What the stages of a call hold when they all work with the cutoff day
\* "yesterday": no record is later than it, after the limit none is earlier
\* than 364 days before it, the densified sequence runs from 363 days before
\* it up to it, and the first data row written is dated that day.
StagesUseYesterday ==
  /\ pc \in {"read", "loaded", "limited", "filled", "computed", "done"} =>
       \A k \in DOMAIN records : ~After(records[k].Date, yesterday)
  /\ pc \in {"limited", "filled", "computed", "done"} =>
       \A k \in DOMAIN records :
          ~Before(records[k].Date, AddDate(yesterday, -CutoffBack))
  /\ (pc \in {"filled", "computed", "done"} /\ Len(records) > 0) =>
       /\ DayOf(records[1]) = CutoffDayOf(yesterday) - HorizonBack
       /\ DayOf(records[Len(records)]) = CutoffDayOf(yesterday)
  /\ (pc = "done" /\ Len(output) > 1) => output[2].Date = CutoffDayOf(yesterday)

\* C22 as the spec words it: a call that has ended has read the time source
\* exactly once.
C22_TimeReadExactlyOnce == pc \in {"done", "failed"} => timeNowCalls = 1

\* C22: a call reads the time source at most once, exactly once when it gets
\* past the header and not at all when it fails on the header; the cutoff
\* day is taken from that reading, does not change while the clock does,
\* and is the one value the filter, the limit, the densifier, the
\* statistics loop and the writer work with.
C22_OneCutoffPerCall ==
  [][/\ timeNowCalls' = (IF PastHeader' THEN 1 ELSE 0)
     /\ (pc = "start" /\ pc' = "read") =>
          yesterday' = AddDate(Truncate(UTC(clock)), -1)
     /\ pc # "start" => yesterday' = yesterday
     /\ StagesUseYesterday']_vars

\* C22 witness: a call that wrote its 364 rows although the clock had moved
\* to the next UTC day after the cutoff day was taken.
C22_Witness ==
  /\ pc = "done"
  /\ Len(output) = HorizonDays + 1
  /\ timeNowCalls = 1
  /\ DayUTC(clock) - 1 > DayUTC(yesterday)

\* C25: ProcessAllFiles returns an error only when the directory could not
\* be made or read; in every other run it ends by returning nil, whatever
\* the calls for the files returned.
C25_ReturnsNilDespiteFailures ==
  /\ batch.pc = "failed" => batch.readDirErr
  /\ (BatchEnded /\ ~batch.readDirErr) => batch.pc = "returned"

\* C30: the files of the output directory are named by series names of the
\* files processed, one file for each name; a successful call replaces the
\* file of its own series name by what it wrote and leaves every other file
\* as it was, and no other step changes a file.
C30_OutputPathBySeriesName ==
  [][/\ \A f \in artifacts' :
          \E k \in DOMAIN batch'.calls : f.path = Head(batch'.calls[k])
     /\ \A f, g \in artifacts' : f.path = g.path => f = g
     /\ IF pc = "computed" /\ pc' = "done"
          THEN /\ [path |-> Head(inputFile), rows |-> output'] \in artifacts'
               /\ \A f \in artifacts : f.path # Head(inputFile) => f \in artifacts'
               /\ \A f \in artifacts' : f.path # Head(inputFile) => f \in artifacts
          ELSE artifacts' = artifacts]_vars

\* C30 witness: the second of two files of one series has been written
\* after the first had succeeded, and the one output file holds the rows of
\* the second.
C30_Witness ==
  /\ batch.pc = "call"
  /\ pc = "done"
  /\ Len(batch.calls) = 2
  /\ Head(batch.calls[1]) = Head(batch.calls[2])
  /\ batch.results = <<"">>
  /\ artifacts = {[path |-> Head(inputFile), rows |-> output]}
  /\ output[2].Volume = 300

====
